---- MODULE Spec2Model ----
(***************************************************************************)
(* A model of @rbxts/deep-equal: the recursive comparison engine           *)
(* (deepEqualNested, findMissingElements), the custom checkers with the    *)
(* built-in checkOverlapParams, the configuration merge and the            *)
(* process-wide default configuration.                                     *)
(*                                                                         *)
(* Values are records [t |-> <typeOf name>, v |-> <payload>].  For a       *)
(* primitive the payload is the value itself (a number, or the code of a   *)
(* string), for a table or another reference type it is the identity of    *)
(* the object, so that `left === right` is record equality.  Tables live   *)
(* in `heap`: a table is [arr |-> <array part>, ent |-> <hash part, as the  *)
(* list of entries in the order `pairs` yields them>].                     *)
(* A path is the sequence of the pieces the template strings append.       *)
(***************************************************************************)
EXTENDS Integers, Sequences, FiniteSets, TLC

VARIABLES heap, left, right, config, defaultConfig, pc, result,
          argument, baselineCache, lastOp

vars == <<heap, left, right, config, defaultConfig, pc, result, argument, baselineCache, lastOp>>

(***************************************************************************)
(* Bounds of the model                                                     *)
(***************************************************************************)
MaxLen == 3

MaxDepth == 6

(***************************************************************************)
(* Values and tables                                                       *)
(***************************************************************************)
Nil == [t |-> "nil", v |-> 0]

Num(n) == [t |-> "number", v |-> n]

Str(n) == [t |-> "string", v |-> n]

Tbl(id) == [t |-> "table", v |-> id]

Vector3(n) == [t |-> "Vector3", v |-> n]

Inst(id) == [t |-> "Instance", v |-> id]

Bool(b) == [t |-> "boolean", v |-> b]

EnumItem(n) == [t |-> "EnumItem", v |-> n]

\* an OverlapParams object; its properties are the entries of heap[id], and
\* FilterDescendantsInstances is the table holding the array the property yields
OverlapParams(id) == [t |-> "OverlapParams", v |-> id]

typeOf(x) == x.t

ReferenceTypes ==
  {"function", "BasePart", "Instance", "OverlapParams", "RaycastParams",
   "RaycastResult", "RBXScriptConnection", "RBXScriptSignal", "userdata",
   "thread", "vector", "buffer", "table"}

Arr(s) == [arr |-> s, ent |-> <<>>]

Map(e) == [arr |-> <<>>, ent |-> e]

KV(k, x) == [k |-> k, v |-> x]

\* t.array(t.any): a table whose keys are exactly 1..n (the empty table too)
isArray(h, x) == typeOf(x) = "table" /\ h[x.v].ent = <<>>

size(h, x) == Len(h[x.v].arr)

\* array[i] with the zero-based index of the TypeScript source; nil when out of range
At(h, x, i) == IF i >= 0 /\ i < Len(h[x.v].arr) THEN h[x.v].arr[i + 1] ELSE Nil

\* Object.entries: the hash part in iteration order, or the array part under its Lua keys
entries(h, x) ==
  IF h[x.v].ent # <<>> THEN h[x.v].ent
  ELSE [i \in 1..Len(h[x.v].arr) |-> KV(ToString(i), h[x.v].arr[i])]

keyIn(h, key, x) == \E i \in 1..Len(entries(h, x)) : entries(h, x)[i].k = key

index(h, x, key) ==
  IF keyIn(h, key, x)
  THEN entries(h, x)[CHOOSE i \in 1..Len(entries(h, x)) : entries(h, x)[i].k = key].v
  ELSE Nil

includes(s, x) == \E i \in 1..Len(s) : s[i] = x

(***************************************************************************)
(* Failure data                                                            *)
(***************************************************************************)
FailureData(failType, leftValue, rightValue, leftMissing, rightMissing, path) ==
  [failType |-> failType,
   leftValue |-> leftValue, leftType |-> typeOf(leftValue),
   rightValue |-> rightValue, rightType |-> typeOf(rightValue),
   leftMissing |-> leftMissing, rightMissing |-> rightMissing,
   path |-> path]

\* Option.none()
None == FailureData("NONE", Nil, Nil, <<>>, <<>>, <<>>)

isNone(r) == r.failType = "NONE"

isSome(r) == r.failType # "NONE"

(***************************************************************************)
(* Configuration                                                           *)
(* A Partial<DeepEqualConfig> is a record holding only the fields that were *)
(* given; customCheckers maps a type name to the name of a checker.        *)
(***************************************************************************)
EmptyConfig == [k \in {} |-> TRUE]

\* { ...a, ...b }
spread(a, b) == [k \in DOMAIN a \cup DOMAIN b |-> IF k \in DOMAIN b THEN b[k] ELSE a[k]]

\* c?.field ?? default
orElse(c, field, default) == IF field \in DOMAIN c THEN c[field] ELSE default

\* the built-in registry
checkers == [OverlapParams |-> "checkOverlapParams"]

\* new WeakMap(): a map of its own, holding no pair
NewWeakMap == [map |-> "new", pairs |-> {}]

\* the _cache of baselineConfig is one map made when the module is loaded;
\* baselineCache holds the pairs in it
baselineConfig ==
  [checkRightMissing |-> TRUE, inOrder |-> FALSE,
   cache |-> [map |-> "baseline", pairs |-> baselineCache], customCheckers |-> checkers]

\* mutant of mergeTwo: a field the earlier configuration has is kept
mergeTwo_FirstWins(acc, curr) ==
  spread(spread(curr, acc),
         [ignore |-> orElse(acc, "ignore", <<>>) \o orElse(curr, "ignore", <<>>),
          referenceOnly |-> orElse(acc, "referenceOnly", <<>>) \o orElse(curr, "referenceOnly", <<>>),
          customCheckers |-> spread(orElse(acc, "customCheckers", EmptyConfig),
                                    orElse(curr, "customCheckers", EmptyConfig))])

\* mutant of mergeTwo: the lists and the checkers of the later configuration
\* replace those of the earlier one
mergeTwo_LaterReplaces(acc, curr) ==
  spread(spread(acc, curr),
         [ignore |-> orElse(curr, "ignore", orElse(acc, "ignore", <<>>)),
          referenceOnly |-> orElse(curr, "referenceOnly", orElse(acc, "referenceOnly", <<>>)),
          customCheckers |-> orElse(curr, "customCheckers",
                                    orElse(acc, "customCheckers", EmptyConfig))])

\* the reducer of mergeConfigs
mergeTwo(acc, curr) ==
  spread(spread(acc, curr),
         [ignore |-> orElse(acc, "ignore", <<>>) \o orElse(curr, "ignore", <<>>),
          referenceOnly |-> orElse(acc, "referenceOnly", <<>>) \o orElse(curr, "referenceOnly", <<>>),
          customCheckers |-> spread(orElse(acc, "customCheckers", EmptyConfig),
                                    orElse(curr, "customCheckers", EmptyConfig))])

RECURSIVE reduce(_, _)
reduce(acc, configs) ==
  IF configs = <<>> THEN acc ELSE reduce(mergeTwo(acc, Head(configs)), Tail(configs))

mergeConfigs(configs) == reduce(Head(configs), Tail(configs))

\* An object a caller holds carries its identity in the field obj: whoever
\* holds a record with the same obj holds that very object and sees what the
\* caller stores in it.
sameConfigObject(a, b) == "obj" \in DOMAIN a /\ "obj" \in DOMAIN b /\ a.obj = b.obj

deepCopy_SameObject(c) == c

\* deepCopy of a configuration: a new object with the same contents
deepCopy(c) == [k \in DOMAIN c \ {"obj"} |-> c[k]]

(***************************************************************************)
(* The traversal context: the visited-pair cache of the call, and a record *)
(* of what the call did (the checkers it invoked, the pairs whose elements *)
(* or entries it walked, every comparison with its outcome, and whether    *)
(* the recursion went deeper than the stack allows).                       *)
(***************************************************************************)
EmptyCtx ==
  [cache |-> {}, calls |-> <<>>, expanded |-> <<>>, log |-> <<>>, overflow |-> FALSE]

Ret(res, ctx) == [res |-> res, ctx |-> ctx]

isComposite(x) == typeOf(x) \in ReferenceTypes \ {"function"}

\* has-circular-reference.ts: was this ordered pair met before in this call?
hasCircularReference(cache, l, r) ==
  isComposite(l) /\ isComposite(r) /\ <<l, r>> \in cache

\* has-circular-reference.ts: the pair is recorded on its first encounter
remember(cache, l, r) ==
  IF isComposite(l) /\ isComposite(r) THEN cache \cup {<<l, r>>} ELSE cache

(***************************************************************************)
(* Custom checkers                                                         *)
(***************************************************************************)
\* (_, l, r) => Option.none()
checkNone(cfg, l, r) == None

\* a checker that reports every pair it is given, as the README's checkInstance does
checkFail(cfg, l, r) == FailureData("DIFFERENT_VALUES", l, r, <<>>, <<>>, <<>>)

\* Option.orElse
optionOrElse(a, b) == IF isSome(a) THEN a ELSE b

\* util: checkValueProperty(left, right, key)
checkValueProperty(l, r, key) ==
  LET leftValue == index(heap, l, key)
      rightValue == index(heap, r, key)
  IN IF leftValue # rightValue
     THEN FailureData("DIFFERENT_VALUES", leftValue, rightValue, <<>>, <<>>, <<key>>)
     ELSE None

\* util: diffArray(left, right, checkRightMissing), as <<leftMissing, rightMissing>>
diffArray(leftArr, rightArr, checkRightMissing) ==
  <<SelectSeq(rightArr, LAMBDA it : ~includes(leftArr, it)),
    IF checkRightMissing THEN SelectSeq(leftArr, LAMBDA it : ~includes(rightArr, it))
    ELSE <<>>>>

\* util: checkArrayProperty(left, right, key, checkRightMissing)
checkArrayProperty(l, r, key, checkRightMissing) ==
  LET leftValue == index(heap, l, key)
      rightValue == index(heap, r, key)
      diff == diffArray(heap[leftValue.v].arr, heap[rightValue.v].arr, checkRightMissing)
  IN IF diff[1] = <<>> /\ diff[2] = <<>> THEN None
     ELSE FailureData("MISSING_ARRAY_VALUE", leftValue, rightValue, diff[1], diff[2], <<key>>)

\* checkers/overlap-params.ts
checkOverlapParams(cfg, l, r) ==
  optionOrElse(checkValueProperty(l, r, "FilterType"),
  optionOrElse(checkValueProperty(l, r, "MaxParts"),
  optionOrElse(checkValueProperty(l, r, "CollisionGroup"),
  optionOrElse(checkValueProperty(l, r, "RespectCanCollide"),
  optionOrElse(checkValueProperty(l, r, "BruteForceAllSlow"),
               checkArrayProperty(l, r, "FilterDescendantsInstances",
                                  cfg.checkRightMissing))))))

callChecker(name, cfg, l, r) ==
  IF name = "checkNone" THEN checkNone(cfg, l, r)
  ELSE IF name = "checkOverlapParams" THEN checkOverlapParams(cfg, l, r)
  ELSE checkFail(cfg, l, r)

(***************************************************************************)
(* The comparison engine (deep-equal-nested.ts)                            *)
(***************************************************************************)
\* `${path}[${index}]`
indexPath(path, i) == path \o <<"[" \o ToString(i) \o "]">>

\* `${path}.${key}`
subPath(path, key) == path \o <<".", key>>

\* mutant of sameObject: the identity shortcut is missing
sameObject_Never(l, r) == FALSE

\* left === right
sameObject(l, r) == l = r

\* mutant of cycleFound: a pair met again is compared again
cycleFound_Never(cache, l, r) == FALSE

\* if (hasCircularReference(config, left, right)) return Option.none()
cycleFound(cache, l, r) == hasCircularReference(cache, l, r)

\* mutant of typesDiffer: the type check is missing
typesDiffer_Never(leftType, rightType) == FALSE

\* leftType !== rightType
typesDiffer(leftType, rightType) == leftType # rightType

\* mutant of stopsAfterRightScan: the left entries are always walked
stopsAfterRightScan_Never(cfg) == FALSE

\* if (!config.checkRightMissing) return Option.none()
stopsAfterRightScan(cfg) == ~cfg.checkRightMissing

\* mutant of isIgnored: only the type of the left value is looked up
isIgnored_LeftOnly(cfg, leftType, rightType) == includes(cfg.ignore, leftType)

\* config.ignore?.includes(leftType) || config.ignore?.includes(rightType)
isIgnored(cfg, leftType, rightType) ==
  includes(cfg.ignore, leftType) \/ includes(cfg.ignore, rightType)

\* mutant of usesCustomChecker: the registry is consulted after the test for value
\* types, so only for the reference types
usesCustomChecker_OnlyReferenceTypes(cfg, leftType) ==
  /\ ~includes(cfg.referenceOnly, leftType)
  /\ leftType \in ReferenceTypes
  /\ leftType \in DOMAIN cfg.customCheckers

\* mutant of usesCustomChecker: the registry is consulted outside the referenceOnly test
usesCustomChecker_DespiteReferenceOnly(cfg, leftType) == leftType \in DOMAIN cfg.customCheckers

\* !config.referenceOnly?.includes(leftType) && leftType in config.customCheckers
usesCustomChecker(cfg, leftType) ==
  ~includes(cfg.referenceOnly, leftType) /\ leftType \in DOMAIN cfg.customCheckers

\* !config.referenceOnly?.includes(leftType) && !(leftType in ReferenceTypes)
isValueType(cfg, leftType) ==
  ~includes(cfg.referenceOnly, leftType) /\ leftType \notin ReferenceTypes

\* mutant of alreadyMatched: matched elements of the other side are offered again
alreadyMatched_NeverSkips(matchedIndicies, i) == FALSE

\* if (matchedIndicies[i]) continue
alreadyMatched(matchedIndicies, i) == i \in matchedIndicies

\* the first key of right, in iteration order, that left lacks (0 when there is none)
RECURSIVE firstMissingKey(_, _, _)
firstMissingKey(ents, other, i) ==
  IF i > Len(ents) THEN 0
  ELSE IF ~keyIn(heap, ents[i].k, other) THEN i
  ELSE firstMissingKey(ents, other, i + 1)

RECURSIVE deepEqualNested(_, _, _, _, _, _)
RECURSIVE compareValues(_, _, _, _, _, _)
RECURSIVE findMatch(_, _, _, _, _, _, _, _)
RECURSIVE findMissingLoop(_, _, _, _, _, _, _, _, _)
RECURSIVE inOrderLoop(_, _, _, _, _, _, _)
RECURSIVE leftEntriesLoop(_, _, _, _, _, _, _)

\* the inner loop of findMissingElements: for (const i of $range(0, rightSize)),
\* both ends included, so the last round reads right[rightSize], which is nil
findMatch(cfg, ctx, depth, elemPath, leftValue, r, matchedIndicies, i) ==
  IF i > size(heap, r)
  THEN [isMissing |-> TRUE, matchedIndicies |-> matchedIndicies, ctx |-> ctx]
  ELSE IF alreadyMatched(matchedIndicies, i)
  THEN findMatch(cfg, ctx, depth, elemPath, leftValue, r, matchedIndicies, i + 1)
  ELSE LET res == deepEqualNested(cfg, ctx, depth + 1, elemPath, leftValue, At(heap, r, i))
       IN IF isNone(res.res)
          THEN [isMissing |-> FALSE, matchedIndicies |-> matchedIndicies \cup {i},
                ctx |-> res.ctx]
          ELSE findMatch(cfg, res.ctx, depth, elemPath, leftValue, r, matchedIndicies, i + 1)

\* the outer loop of findMissingElements: left.forEach((leftValue, leftIndex) => ...)
findMissingLoop(cfg, ctx, depth, path, l, r, leftIndex, matchedIndicies, missingElements) ==
  IF leftIndex >= size(heap, l)
  THEN [missing |-> missingElements, ctx |-> ctx]
  ELSE LET m == findMatch(cfg, ctx, depth, indexPath(path, leftIndex),
                          At(heap, l, leftIndex), r, matchedIndicies, 0)
       IN findMissingLoop(cfg, m.ctx, depth, path, l, r, leftIndex + 1, m.matchedIndicies,
                          IF m.isMissing
                          THEN Append(missingElements, At(heap, l, leftIndex))
                          ELSE missingElements)

findMissingElements(cfg, ctx, depth, path, l, r) ==
  findMissingLoop(cfg, ctx, depth, path, l, r, 0, {}, <<>>)

\* slice(array, start)
slice(array, start) == SubSeq(array, start + 1, Len(array))

\* mutant of inOrderLoop: only the indices both sequences have are compared
inOrderLoop_CommonIndices(cfg, ctx, depth, path, l, r, i) ==
  IF i >= size(heap, l) \/ i >= size(heap, r) THEN Ret(None, ctx)
  ELSE LET res == deepEqualNested(cfg, ctx, depth + 1, indexPath(path, i),
                                  At(heap, l, i), At(heap, r, i))
       IN IF isSome(res.res) THEN res
          ELSE inOrderLoop(cfg, res.ctx, depth, path, l, r, i + 1)

\* for (let index = 0; index < leftSize; index++)
inOrderLoop(cfg, ctx, depth, path, l, r, i) ==
  IF i >= size(heap, l) THEN Ret(None, ctx)
  ELSE LET res == deepEqualNested(cfg, ctx, depth + 1, indexPath(path, i),
                                  At(heap, l, i), At(heap, r, i))
       IN IF isSome(res.res) THEN res
          ELSE inOrderLoop(cfg, res.ctx, depth, path, l, r, i + 1)

\* mutant of compareInOrder: the sizes are compared before the elements
compareInOrder_LengthFirst(cfg, ctx, depth, path, l, r) ==
  IF size(heap, l) # size(heap, r)
  THEN Ret(FailureData("MISSING_ARRAY_VALUE", l, r,
                       slice(heap[r.v].arr, size(heap, l)), <<>>, path), ctx)
  ELSE inOrderLoop(cfg, ctx, depth, path, l, r, 0)

compareInOrder(cfg, ctx, depth, path, l, r) ==
  LET loop == inOrderLoop(cfg, ctx, depth, path, l, r, 0)
  IN IF isSome(loop.res) THEN loop
     ELSE IF size(heap, l) # size(heap, r)
     THEN Ret(FailureData("MISSING_ARRAY_VALUE", l, r,
                          slice(heap[r.v].arr, size(heap, l)), <<>>, path), loop.ctx)
     ELSE Ret(None, loop.ctx)

\* mutant of compareUnordered: the elements of right are never looked for in left
compareUnordered_OnePass(cfg, ctx, depth, path, l, r) ==
  LET rightMissing == findMissingElements(cfg, ctx, depth, path, l, r)
  IN IF rightMissing.missing = <<>>
     THEN Ret(None, rightMissing.ctx)
     ELSE Ret(FailureData("MISSING_ARRAY_VALUE", l, r, <<>>, rightMissing.missing, path),
              rightMissing.ctx)

compareUnordered(cfg, ctx, depth, path, l, r) ==
  LET rightMissing == findMissingElements(cfg, ctx, depth, path, l, r)
      leftMissing == IF cfg.checkRightMissing
                     THEN findMissingElements(cfg, rightMissing.ctx, depth, path, r, l)
                     ELSE [missing |-> <<>>, ctx |-> rightMissing.ctx]
  IN IF leftMissing.missing = <<>> /\ rightMissing.missing = <<>>
     THEN Ret(None, leftMissing.ctx)
     ELSE Ret(FailureData("MISSING_ARRAY_VALUE", l, r,
                          leftMissing.missing, rightMissing.missing, path), leftMissing.ctx)

\* for (const [key, value] of leftEntries)
leftEntriesLoop(cfg, ctx, depth, path, l, r, i) ==
  IF i > Len(entries(heap, l)) THEN Ret(None, ctx)
  ELSE LET key == entries(heap, l)[i].k
           value == entries(heap, l)[i].v
       IN IF ~keyIn(heap, key, r)
          THEN Ret(FailureData("MISSING", value, Nil, <<>>, <<>>, subPath(path, key)), ctx)
          ELSE LET res == deepEqualNested(cfg, ctx, depth + 1, subPath(path, key),
                                          index(heap, l, key), index(heap, r, key))
               IN IF isSome(res.res) THEN res
                  ELSE leftEntriesLoop(cfg, res.ctx, depth, path, l, r, i + 1)

\* mutant of compareTables: the entries of left are walked before the keys of right
\* are looked up in left
compareTables_LeftFirst(cfg, ctx, depth, path, l, r) ==
  LET rightEntries == entries(heap, r)
      miss == firstMissingKey(rightEntries, l, 1)
      loop == IF stopsAfterRightScan(cfg) THEN Ret(None, ctx)
              ELSE leftEntriesLoop(cfg, ctx, depth, path, l, r, 1)
  IN IF isSome(loop.res) THEN loop
     ELSE IF miss # 0
     THEN Ret(FailureData("MISSING", Nil, rightEntries[miss].v, <<>>, <<>>,
                          subPath(path, rightEntries[miss].k)), loop.ctx)
     ELSE loop

compareTables(cfg, ctx, depth, path, l, r) ==
  LET rightEntries == entries(heap, r)
      miss == firstMissingKey(rightEntries, l, 1)
  IN IF miss # 0
     THEN Ret(FailureData("MISSING", Nil, rightEntries[miss].v, <<>>, <<>>,
                          subPath(path, rightEntries[miss].k)), ctx)
     ELSE IF stopsAfterRightScan(cfg) THEN Ret(None, ctx)
     ELSE leftEntriesLoop(cfg, ctx, depth, path, l, r, 1)

\* the body of deepEqualNested
compareValues(cfg, ctx, depth, path, l, r) ==
  IF sameObject(l, r) THEN Ret(None, ctx)
  ELSE LET leftType == typeOf(l)
           rightType == typeOf(r)
           seen == cycleFound(ctx.cache, l, r)
           ctx1 == [ctx EXCEPT !.cache = remember(ctx.cache, l, r)]
           ctx2 == [ctx1 EXCEPT !.expanded = Append(ctx1.expanded, <<l, r>>)]
       IN IF seen THEN Ret(None, ctx1)
          ELSE IF isIgnored(cfg, leftType, rightType) THEN Ret(None, ctx1)
          ELSE IF typesDiffer(leftType, rightType)
          THEN Ret(FailureData("DIFFERENT_TYPES", l, r, <<>>, <<>>, path), ctx1)
          ELSE IF usesCustomChecker(cfg, leftType)
          THEN Ret(callChecker(cfg.customCheckers[leftType], cfg, l, r),
                   [ctx1 EXCEPT !.calls = Append(ctx1.calls, <<l, r>>)])
          ELSE IF isValueType(cfg, leftType)
          THEN Ret(FailureData("DIFFERENT_VALUES", l, r, <<>>, <<>>, path), ctx1)
          ELSE IF isArray(heap, l) /\ isArray(heap, r)
          THEN IF cfg.inOrder
               THEN compareInOrder(cfg, ctx2, depth, path, l, r)
               ELSE compareUnordered(cfg, ctx2, depth, path, l, r)
          ELSE IF leftType = "table"
          THEN compareTables(cfg, ctx2, depth, path, l, r)
          ELSE Ret(FailureData("DIFFERENT_REFERENCE", l, r, <<>>, <<>>, path), ctx1)

\* one call of deepEqualNested; a call deeper than the stack allows aborts the traversal
deepEqualNested(cfg, ctx, depth, path, l, r) ==
  IF ctx.overflow THEN Ret(None, ctx)
  ELSE IF depth > MaxDepth THEN Ret(None, [ctx EXCEPT !.overflow = TRUE])
  ELSE LET out == compareValues(cfg, ctx, depth, path, l, r)
       IN Ret(out.res,
              [out.ctx EXCEPT !.log = Append(@, [l |-> l, r |-> r, path |-> path,
                                                 res |-> out.res])])

(***************************************************************************)
(* deepEqual (algorithm/deep-equal.ts)                                     *)
(***************************************************************************)
\* mutant of trim: the path is returned as it was built
trim_Nothing(str, substr) == str

RECURSIVE trimStart(_, _)
trimStart(str, substr) ==
  IF str # <<>> /\ Head(str) = substr THEN trimStart(Tail(str), substr) ELSE str

RECURSIVE trimEnd(_, _)
trimEnd(str, substr) ==
  IF str # <<>> /\ str[Len(str)] = substr
  THEN trimEnd(SubSeq(str, 1, Len(str) - 1), substr) ELSE str

trim(str, substr) == trimEnd(trimStart(str, substr), substr)

\* getDefaultDeepEqualConfig: the stored object itself
getDefaultDeepEqualConfig == defaultConfig

actualConfig_MergedCache(cfg) == mergeConfigs(<<baselineConfig, getDefaultDeepEqualConfig, cfg>>)

actualConfig(cfg) ==
  spread(mergeConfigs(<<baselineConfig, getDefaultDeepEqualConfig, cfg>>), [cache |-> NewWeakMap])

deepEqual(l, r, cfg) ==
  LET out == deepEqualNested(actualConfig(cfg),
                             [EmptyCtx EXCEPT !.cache = actualConfig(cfg).cache.pairs],
                             0, <<>>, l, r)
  IN [value |-> IF isSome(out.res) THEN [out.res EXCEPT !.path = trim(out.res.path, ".")]
                ELSE None,
      ctx |-> out.ctx]

(***************************************************************************)
(* The program as a state machine: the process-wide default configuration  *)
(* is set and reset, and deepEqual is called on two values.                *)
(***************************************************************************)
NoResult == [value |-> None, ctx |-> EmptyCtx]

\* no configuration object in the caller's hands
NoArgument == EmptyConfig

\* lastOp remembers the last call that assigned the default configuration and
\* what its argument held when the call was made
NoOp == [op |-> "none", arg |-> EmptyConfig]

SetDefaultDeepEqualConfig(c) ==
  /\ pc = "idle"
  /\ defaultConfig' = deepCopy(c)
  /\ lastOp' = [op |-> "set", arg |-> [k \in DOMAIN c \ {"obj"} |-> c[k]]]
  /\ UNCHANGED <<heap, left, right, config, pc, result, argument, baselineCache>>

\* mutant of ResetDefaultDeepEqualConfig: the checkers of the old default stay
ResetDefaultDeepEqualConfig_KeepsCheckers ==
  /\ pc = "idle"
  /\ defaultConfig' = [customCheckers |-> orElse(defaultConfig, "customCheckers", EmptyConfig)]
  /\ lastOp' = [op |-> "reset", arg |-> EmptyConfig]
  /\ UNCHANGED <<heap, left, right, config, pc, result, argument, baselineCache>>

ResetDefaultDeepEqualConfig ==
  /\ pc = "idle"
  /\ defaultConfig' = EmptyConfig
  /\ lastOp' = [op |-> "reset", arg |-> EmptyConfig]
  /\ UNCHANGED <<heap, left, right, config, pc, result, argument, baselineCache>>

\* the pairs the call records go into the map its configuration names
DeepEqual ==
  /\ pc = "idle"
  /\ result' = deepEqual(left, right, config)
  /\ baselineCache' = IF actualConfig(config).cache.map = "baseline"
                      THEN result'.ctx.cache ELSE baselineCache
  /\ pc' = "returned"
  /\ UNCHANGED <<heap, left, right, config, defaultConfig, argument, lastOp>>

\* the default configurations index.spec.ts sets
TestDefaults == {[checkRightMissing |-> FALSE], [inOrder |-> TRUE]}

Next ==
  \/ \E c \in TestDefaults : SetDefaultDeepEqualConfig(c)
  \/ ResetDefaultDeepEqualConfig
  \/ DeepEqual

\* The caller stores other contents in the object it passed to
\* setDefaultDeepEqualConfig; whoever holds that very object sees them.
MutateArgument(c) ==
  /\ pc = "idle"
  /\ lastOp.op = "set"
  /\ c # argument
  /\ argument' = c
  /\ defaultConfig' = IF sameConfigObject(defaultConfig, argument) THEN c ELSE defaultConfig
  /\ UNCHANGED <<heap, left, right, config, pc, result, baselineCache, lastOp>>

\* the caller goes on to its next call, the last result in its hands
NextCall ==
  /\ pc = "returned"
  /\ pc' = "idle"
  /\ UNCHANGED <<heap, left, right, config, defaultConfig, result, argument, baselineCache, lastOp>>

(***************************************************************************)
(* SpecSeq: two sequences of primitives                                    *)
(***************************************************************************)
Primitives == {Num(1), Num(2), Str(1)}

PrimitiveSeqs == UNION {[1..n -> Primitives] : n \in 0..MaxLen}

InitSeq ==
  /\ heap \in {<<Arr(a), Arr(b)>> : a \in PrimitiveSeqs, b \in PrimitiveSeqs}
  /\ left = Tbl(1)
  /\ right = Tbl(2)
  /\ config \in {EmptyConfig, [checkRightMissing |-> FALSE]}
  /\ defaultConfig = EmptyConfig
  /\ pc = "idle"
  /\ result = NoResult
  /\ argument = NoArgument
  /\ baselineCache = {}
  /\ lastOp = NoOp

SpecSeq == InitSeq /\ [][Next]_vars

(***************************************************************************)
(* SpecMap: nested mappings.  Each side is a root { a: child, n? },        *)
(* a child { b: grandchild, m? } and a grandchild { c }; tables 1..3 are   *)
(* the left side, 4..6 the right side.  The optional keys come before or   *)
(* after the nested one in iteration order.                                *)
(***************************************************************************)
Leaves == {Num(1), Num(2), Str(1)}

Extras == {Num(1), Num(2)}

\* a table holding `key -> sub`, alone or with `extra` before or after it
Levels(key, sub, extra) ==
  {Map(<<KV(key, sub)>>)}
    \cup {Map(<<KV(key, sub), KV(extra, x)>>) : x \in Extras}
    \cup {Map(<<KV(extra, x), KV(key, sub)>>) : x \in Extras}

Sides(root, child, grand) ==
  {<<r, c, g>> : r \in Levels("a", Tbl(child), "n"),
                 c \in Levels("b", Tbl(grand), "m"),
                 g \in {Map(<<KV("c", x)>>) : x \in Leaves}}

InitMap ==
  /\ heap \in {l \o r : l \in Sides(1, 2, 3), r \in Sides(4, 5, 6)}
  /\ left = Tbl(1)
  /\ right = Tbl(4)
  /\ config \in {EmptyConfig, [checkRightMissing |-> FALSE]}
  /\ defaultConfig = EmptyConfig
  /\ pc = "idle"
  /\ result = NoResult
  /\ argument = NoArgument
  /\ baselineCache = {}
  /\ lastOp = NoOp

SpecMap == InitMap /\ [][Next]_vars

(***************************************************************************)
(* SpecTypes: two values of any type under any configuration.  The values  *)
(* are compared as the roots, as the field x of two mappings or as the     *)
(* only element of two sequences (tables 1 and 2); tables 3 and 4 are two  *)
(* equal sequences and table 5 is a mapping.                               *)
(***************************************************************************)
Samples ==
  {Num(1), Num(2), Str(1), Vector3(1), Vector3(2), Inst(1), Inst(2), Tbl(3), Tbl(4), Tbl(5)}

SampleTables == <<Arr(<<Num(1)>>), Arr(<<Num(1)>>), Map(<<KV("x", Num(1))>>)>>

ConfigTypes == {"number", "Vector3", "Instance", "table"}

CheckerNames == {"checkNone", "checkFail"}

TypeConfigs ==
  {EmptyConfig}
    \cup {[ignore |-> <<t>>] : t \in ConfigTypes}
    \cup {[referenceOnly |-> <<t>>] : t \in ConfigTypes}
    \cup {[customCheckers |-> (t :> k)] : t \in ConfigTypes, k \in CheckerNames}
    \cup {[referenceOnly |-> <<t>>, customCheckers |-> (t :> k)] :
            t \in ConfigTypes, k \in CheckerNames}

InitTypes ==
  /\ \E l \in Samples, r \in Samples :
       \/ /\ heap = <<Arr(<<>>), Arr(<<>>)>> \o SampleTables
          /\ left = l /\ right = r
       \/ /\ heap = <<Map(<<KV("x", l)>>), Map(<<KV("x", r)>>)>> \o SampleTables
          /\ left = Tbl(1) /\ right = Tbl(2)
       \/ /\ heap = <<Arr(<<l>>), Arr(<<r>>)>> \o SampleTables
          /\ left = Tbl(1) /\ right = Tbl(2)
  /\ config \in TypeConfigs
  /\ defaultConfig = EmptyConfig
  /\ pc = "idle"
  /\ result = NoResult
  /\ argument = NoArgument
  /\ baselineCache = {}
  /\ lastOp = NoOp

SpecTypes == InitTypes /\ [][Next]_vars

(***************************************************************************)
(* SpecCyc: two or three tables whose elements or fields are numbers or    *)
(* references to any of the tables, so that each may refer to itself and   *)
(* to the others.  Tables 1 and 2 are compared.                            *)
(***************************************************************************)
MaxCycLen == 2

CycValues == {Num(1), Num(2), Tbl(1), Tbl(2)}

CycTables ==
  {Arr(s) : s \in UNION {[1..n -> CycValues] : n \in 0..MaxCycLen}}
    \cup {Map(<<KV(k, x)>>) : k \in {"a", "b"}, x \in CycValues}
    \cup {Map(<<KV(k[1], x), KV(k[2], y)>>) :
            k \in {<<"a", "b">>, <<"b", "a">>}, x \in CycValues, y \in CycValues}

\* three tables of two slots each, all sequences or all mappings
TripleValues == {Num(1), Tbl(1), Tbl(2), Tbl(3)}

Triples ==
  LET slots == TripleValues \X TripleValues
  IN {<<Arr(a), Arr(b), Arr(c)>> : a \in slots, b \in slots, c \in slots}
       \cup {<<Map(<<KV("a", a[1]), KV("b", a[2])>>),
               Map(<<KV("a", b[1]), KV("b", b[2])>>),
               Map(<<KV("a", c[1]), KV("b", c[2])>>)>> :
               a \in slots, b \in slots, c \in slots}

InitCyc ==
  /\ heap \in {<<l, r>> : l \in CycTables, r \in CycTables} \cup Triples
  /\ left = Tbl(1)
  /\ right = Tbl(2)
  /\ config = EmptyConfig
  /\ defaultConfig = EmptyConfig
  /\ pc = "idle"
  /\ result = NoResult
  /\ argument = NoArgument
  /\ baselineCache = {}
  /\ lastOp = NoOp

SpecCyc == InitCyc /\ [][Next]_vars

(***************************************************************************)
(* SpecSelf: two mappings { name, self, age } whose self is the mapping    *)
(* itself, in every iteration order of the keys.                           *)
(***************************************************************************)
Scalars == {Num(1), Num(2), Str(1)}

KeyOrders == {o \in [1..3 -> {"name", "self", "age"}] : \A i, j \in 1..3 : o[i] = o[j] => i = j}

SelfTables(id) ==
  {Map([i \in 1..3 |-> KV(o[i], IF o[i] = "self" THEN Tbl(id)
                                ELSE IF o[i] = "name" THEN n ELSE a)]) :
     o \in KeyOrders, n \in Scalars, a \in Scalars}

InitSelf ==
  /\ heap \in {<<l, r>> : l \in SelfTables(1), r \in SelfTables(2)}
  /\ left = Tbl(1)
  /\ right = Tbl(2)
  /\ config = EmptyConfig
  /\ defaultConfig = EmptyConfig
  /\ pc = "idle"
  /\ result = NoResult
  /\ argument = NoArgument
  /\ baselineCache = {}
  /\ lastOp = NoOp

SpecSelf == InitSelf /\ [][Next]_vars

(***************************************************************************)
(* SpecIgnore: one type is ignored.  The two sides (tables 1 and 2) are    *)
(* two sequences of primitives, or two mappings { a, b } whose fields are  *)
(* primitives or the side's nested mapping { c } (tables 3 and 4).         *)
(***************************************************************************)
IgnoredTypes == {"number", "string", "table"}

IgnoreConfigs ==
  {[ignore |-> <<t>>] : t \in IgnoredTypes}
    \cup {[ignore |-> <<"number">>, checkRightMissing |-> FALSE]}

IgnoreFields(child) == {Num(1), Str(1), Tbl(child)}

IgnoreRoots(child) ==
  {Map(<<KV("a", x), KV("b", y)>>) : x \in IgnoreFields(child), y \in IgnoreFields(child)}

IgnoreChildren == {Map(<<KV("c", z)>>) : z \in Primitives}

InitIgnore ==
  /\ heap \in {<<Arr(a), Arr(b)>> : a \in PrimitiveSeqs, b \in PrimitiveSeqs}
              \cup {<<l, r, lc, rc>> : l \in IgnoreRoots(3), r \in IgnoreRoots(4),
                                       lc \in IgnoreChildren, rc \in IgnoreChildren}
  /\ left = Tbl(1)
  /\ right = Tbl(2)
  /\ config \in IgnoreConfigs
  /\ defaultConfig = EmptyConfig
  /\ pc = "idle"
  /\ result = NoResult
  /\ argument = NoArgument
  /\ baselineCache = {}
  /\ lastOp = NoOp

SpecIgnore == InitIgnore /\ [][Next]_vars

(***************************************************************************)
(* SpecOrd: ordered mode.  The two sides (tables 1 and 2) are sequences of *)
(* primitives, or short sequences that hold a primitive and the side's     *)
(* nested sequence (tables 3 and 4).                                       *)
(***************************************************************************)
OrdInner == {Arr(s) : s \in {<<>>, <<Num(1)>>, <<Num(2)>>, <<Num(1), Num(1)>>, <<Num(1), Num(2)>>}}

OrdRoots(inner) ==
  {Arr(<<Tbl(inner)>>)}
    \cup {Arr(<<x, Tbl(inner)>>) : x \in {Num(1), Num(2)}}
    \cup {Arr(<<Tbl(inner), x>>) : x \in {Num(1), Num(2)}}

InitOrd ==
  /\ heap \in {<<Arr(a), Arr(b)>> : a \in PrimitiveSeqs, b \in PrimitiveSeqs}
              \cup {<<l, r, li, ri>> : l \in OrdRoots(3), r \in OrdRoots(4),
                                       li \in OrdInner, ri \in OrdInner}
  /\ left = Tbl(1)
  /\ right = Tbl(2)
  /\ config = [inOrder |-> TRUE]
  /\ defaultConfig = EmptyConfig
  /\ pc = "idle"
  /\ result = NoResult
  /\ argument = NoArgument
  /\ baselineCache = {}
  /\ lastOp = NoOp

SpecOrd == InitOrd /\ [][Next]_vars

(***************************************************************************)
(* SpecKeys: two mappings over the keys a, b, c, each holding any of them  *)
(* in any iteration order.  They are compared as the roots (tables 1 and   *)
(* 2) or as the field p of the roots (tables 3 and 4).                     *)
(***************************************************************************)
KeyNames == {"a", "b", "c"}

\* the lists of distinct keys
KeyLists ==
  {o \in UNION {[1..n -> KeyNames] : n \in 1..Cardinality(KeyNames)} :
     \A i, j \in 1..Len(o) : o[i] = o[j] => i = j}

LeftKeyTables == {Map([i \in 1..Len(o) |-> KV(o[i], Num(1))]) : o \in KeyLists}

RightKeyTables ==
  UNION {{Map([i \in 1..Len(o) |-> KV(o[i], x[i])]) : x \in [1..Len(o) -> {Num(1), Num(2)}]} :
           o \in KeyLists}

InitKeys ==
  /\ heap \in {<<l, r>> : l \in LeftKeyTables, r \in RightKeyTables}
              \cup {<<Map(<<KV("p", Tbl(3))>>), Map(<<KV("p", Tbl(4))>>), l, r>> :
                      l \in LeftKeyTables, r \in RightKeyTables}
  /\ left = Tbl(1)
  /\ right = Tbl(2)
  /\ config \in {EmptyConfig, [checkRightMissing |-> FALSE]}
  /\ defaultConfig = EmptyConfig
  /\ pc = "idle"
  /\ result = NoResult
  /\ argument = NoArgument
  /\ baselineCache = {}
  /\ lastOp = NoOp

SpecKeys == InitKeys /\ [][Next]_vars

(***************************************************************************)
(* SpecParams: two OverlapParams objects (heap entries 3 and 4, their      *)
(* FilterDescendantsInstances arrays being entries 5 and 6) compared as    *)
(* the roots, as the field params of two mappings or as the second element *)
(* of two sequences (tables 1 and 2).                                      *)
(***************************************************************************)
Filters ==
  {<<>>, <<Inst(1)>>, <<Inst(2)>>, <<Inst(1), Inst(2)>>, <<Inst(2), Inst(1)>>, <<Inst(1), Inst(1)>>}

Params(filter, filterType, maxParts, group, respect, brute) ==
  Map(<<KV("FilterType", filterType), KV("MaxParts", maxParts), KV("CollisionGroup", group),
        KV("RespectCanCollide", respect), KV("BruteForceAllSlow", brute),
        KV("FilterDescendantsInstances", Tbl(filter))>>)

LeftParams == {Params(5, EnumItem(1), Num(0), Str(1), Bool(FALSE), Bool(FALSE))}

RightParams ==
  {Params(6, ft, mp, cg, rc, bf) :
     ft \in {EnumItem(1), EnumItem(2)}, mp \in {Num(0), Num(1)}, cg \in {Str(1), Str(2)},
     rc \in {Bool(FALSE), Bool(TRUE)}, bf \in {Bool(FALSE), Bool(TRUE)}}

ParamsConfigs == {EmptyConfig, [inOrder |-> TRUE], [checkRightMissing |-> FALSE]}

InitParams ==
  /\ \E l \in LeftParams, r \in RightParams, lf \in Filters, rf \in Filters :
       \/ /\ heap = <<Arr(<<>>), Arr(<<>>), l, r, Arr(lf), Arr(rf)>>
          /\ left = OverlapParams(3) /\ right = OverlapParams(4)
       \/ /\ heap = <<Map(<<KV("params", OverlapParams(3))>>),
                       Map(<<KV("params", OverlapParams(4))>>), l, r, Arr(lf), Arr(rf)>>
          /\ left = Tbl(1) /\ right = Tbl(2)
       \/ /\ heap = <<Arr(<<Num(1), OverlapParams(3)>>),
                       Arr(<<Num(1), OverlapParams(4)>>), l, r, Arr(lf), Arr(rf)>>
          /\ left = Tbl(1) /\ right = Tbl(2)
  /\ config \in ParamsConfigs
  /\ defaultConfig = EmptyConfig
  /\ pc = "idle"
  /\ result = NoResult
  /\ argument = NoArgument
  /\ baselineCache = {}
  /\ lastOp = NoOp

SpecParams == InitParams /\ [][Next]_vars

(***************************************************************************)
(* SpecConfig: calls in a row under a default configuration that is set    *)
(* from an object the caller holds and goes on storing into, and reset.    *)
(* The two values are two sequences or two mappings whose comparison shows *)
(* which configuration the call ran under.                                 *)
(***************************************************************************)
\* a map the caller made and filled with the pair of the two roots
CallerMap == [map |-> "caller", pairs |-> {<<Tbl(1), Tbl(2)>>}]

\* what the caller stores in the object it passes to setDefaultDeepEqualConfig
ArgumentContents ==
  {[checkRightMissing |-> FALSE],
   [inOrder |-> TRUE],
   [ignore |-> <<"Vector3">>, customCheckers |-> ("Instance" :> "checkNone")],
   [referenceOnly |-> <<"Instance">>, cache |-> CallerMap,
    customCheckers |-> ("Vector3" :> "checkNone" @@ "OverlapParams" :> "checkFail")]}

Arguments == {spread(c, [obj |-> "caller"]) : c \in ArgumentContents}

CallConfigs ==
  {EmptyConfig,
   [checkRightMissing |-> TRUE],
   [inOrder |-> FALSE],
   [inOrder |-> TRUE, checkRightMissing |-> FALSE],
   [ignore |-> <<>>],
   [ignore |-> <<"number">>, referenceOnly |-> <<"Vector3">>],
   [customCheckers |-> ("Vector3" :> "checkFail")],
   [cache |-> CallerMap]}

Probes ==
  {<<Arr(<<Num(1), Num(2)>>), Arr(<<Num(2), Num(1)>>)>>,
   <<Arr(<<Num(1), Num(2)>>), Arr(<<Num(1), Num(2)>>)>>,
   <<Map(<<KV("a", Num(1)), KV("b", Num(2))>>), Map(<<KV("a", Num(1))>>)>>,
   <<Arr(<<Vector3(1)>>), Arr(<<Vector3(2)>>)>>,
   <<Arr(<<Inst(1)>>), Arr(<<Inst(2)>>)>>,
   <<Arr(<<Num(1)>>), Arr(<<Num(2)>>)>>}

InitConfig ==
  /\ heap \in Probes
  /\ left = Tbl(1)
  /\ right = Tbl(2)
  /\ config \in CallConfigs
  /\ defaultConfig = EmptyConfig
  /\ pc = "idle"
  /\ result = NoResult
  /\ argument = spread([checkRightMissing |-> FALSE], [obj |-> "caller"])
  /\ baselineCache = {}
  /\ lastOp = NoOp

NextConfig ==
  \/ SetDefaultDeepEqualConfig(argument)
  \/ ResetDefaultDeepEqualConfig
  \/ \E c \in Arguments : MutateArgument(c)
  \/ DeepEqual
  \/ NextCall

SpecConfig == InitConfig /\ [][NextConfig]_vars

(***************************************************************************)
(* SpecShared: two sequences of mappings, where a sequence may hold the    *)
(* same mapping more than once.  Tables 3 and 4 are the mappings of the    *)
(* left sequence, tables 5 and 6 those of the right one.                   *)
(***************************************************************************)
MaxShared == 2

SharedObjects == {Map(<<KV("v", Num(n))>>) : n \in {1, 2}}

SharedSeqs(refs) == UNION {[1..n -> refs] : n \in 0..MaxShared}

InitShared ==
  /\ \E a \in SharedSeqs({Tbl(3), Tbl(4)}), b \in SharedSeqs({Tbl(5), Tbl(6)}),
        o3 \in SharedObjects, o4 \in SharedObjects, o5 \in SharedObjects, o6 \in SharedObjects :
       heap = <<Arr(a), Arr(b), o3, o4, o5, o6>>
  /\ left = Tbl(1)
  /\ right = Tbl(2)
  /\ config \in {EmptyConfig, [inOrder |-> TRUE]}
  /\ defaultConfig = EmptyConfig
  /\ pc = "idle"
  /\ result = NoResult
  /\ argument = NoArgument
  /\ baselineCache = {}
  /\ lastOp = NoOp

SpecShared == InitShared /\ [][Next]_vars

(***************************************************************************)
(* SpecDeep: two values nested three levels deep in which no table is held *)
(* more than once.  Tables 1 and 2 are the roots, tables 3 and 4 belong to *)
(* the left value and tables 5 and 6 to the right one; table 3 may hold    *)
(* table 4, and table 5 table 6.                                           *)
(***************************************************************************)
DeepLeaves == {Arr(<<Num(1), Num(2)>>), Arr(<<Num(2), Num(1)>>), Map(<<KV("v", Num(1))>>)}

\* the roots over two tables a and b of their side
DeepRoots(a, b) ==
  {Arr(<<a, b>>), Arr(<<b, a>>), Arr(<<a>>), Arr(<<Num(1), a>>),
   Map(<<KV("x", a), KV("y", b)>>), Map(<<KV("y", b), KV("x", a)>>), Map(<<KV("x", a)>>)}

\* the tables of one side that hold the other table of that side
DeepInner(b) == {Arr(<<b, Num(1)>>), Arr(<<Num(1), b>>), Map(<<KV("v", b)>>)}

\* the table x is held by the table t
HeldBy(t, x) ==
  \/ \E i \in 1..Len(t.arr) : t.arr[i] = x
  \/ \E i \in 1..Len(t.ent) : t.ent[i].v = x

InitDeep ==
  /\ \E lr \in DeepRoots(Tbl(3), Tbl(4)), rr \in DeepRoots(Tbl(5), Tbl(6)),
        o3 \in DeepLeaves \cup DeepInner(Tbl(4)), o4 \in DeepLeaves,
        o5 \in DeepLeaves \cup DeepInner(Tbl(6)), o6 \in DeepLeaves :
       /\ ~(HeldBy(lr, Tbl(4)) /\ HeldBy(o3, Tbl(4)))
       /\ ~(HeldBy(rr, Tbl(6)) /\ HeldBy(o5, Tbl(6)))
       /\ heap = <<lr, rr, o3, o4, o5, o6>>
  /\ left = Tbl(1)
  /\ right = Tbl(2)
  /\ config \in {EmptyConfig, [inOrder |-> TRUE]}
  /\ defaultConfig = EmptyConfig
  /\ pc = "idle"
  /\ result = NoResult
  /\ argument = NoArgument
  /\ baselineCache = {}
  /\ lastOp = NoOp

SpecDeep == InitDeep /\ [][Next]_vars

(***************************************************************************)
(* SpecNested: two sequences of sequences of mappings.  Tables 3 and 4 are *)
(* the elements of the left root, tables 5 and 6 those of the right root,  *)
(* and all four hold the mappings 7 and 8, each any number of times.       *)
(***************************************************************************)
MaxInner == 2

InnerSeqs == UNION {[1..n -> {Tbl(7), Tbl(8)}] : n \in 0..MaxInner}

InitNested ==
  /\ \E b \in {<<Tbl(5), Tbl(6)>>, <<Tbl(6), Tbl(5)>>},
        o3 \in InnerSeqs, o4 \in InnerSeqs, o5 \in InnerSeqs, o6 \in InnerSeqs :
       heap = <<Arr(<<Tbl(3), Tbl(4)>>), Arr(b), Arr(o3), Arr(o4), Arr(o5), Arr(o6),
                Map(<<KV("v", Num(1))>>), Map(<<KV("v", Num(2))>>)>>
  /\ left = Tbl(1)
  /\ right = Tbl(2)
  /\ config \in {EmptyConfig, [inOrder |-> TRUE]}
  /\ defaultConfig = EmptyConfig
  /\ pc = "idle"
  /\ result = NoResult
  /\ argument = NoArgument
  /\ baselineCache = {}
  /\ lastOp = NoOp

SpecNested == InitNested /\ [][Next]_vars

(***************************************************************************)
(* Vocabulary of the properties                                            *)
(***************************************************************************)
Returned == pc = "returned"

\* the configuration the returned call ran under
Effective == actualConfig(config)

Count(s, x) == Cardinality({i \in 1..Len(s) : s[i] = x})

SameMultiset(a, b) ==
  \A x \in {a[i] : i \in 1..Len(a)} \cup {b[i] : i \in 1..Len(b)} : Count(a, x) = Count(b, x)

\* the multiset difference a - b, in the order of a: the occurrences of each element
\* of a beyond the number of times b holds it
RECURSIVE MultisetDiffFrom(_, _, _)
MultisetDiffFrom(a, b, j) ==
  IF j > Len(a) THEN <<>>
  ELSE (IF Count(SubSeq(a, 1, j), a[j]) > Count(b, a[j]) THEN <<a[j]>> ELSE <<>>)
       \o MultisetDiffFrom(a, b, j + 1)

MultisetDiff(a, b) == MultisetDiffFrom(a, b, 1)

LeftArr == heap[left.v].arr

RightArr == heap[right.v].arr

(***************************************************************************)
(* C1..C3: sequences of primitives, under SpecSeq                          *)
(***************************************************************************)
\* C1: in unordered mode with checkRightMissing = true (the default configuration),
\* two sequences of primitives compare with no failure exactly when they are equal
\* as multisets; otherwise the failure is MISSING_ARRAY_VALUE, rightMissing is the
\* multiset difference left - right in left order and leftMissing is right - left
\* in right order.
C1_UnorderedMultisetDiff ==
  (Returned /\ Effective.checkRightMissing /\ ~Effective.inOrder) =>
    /\ isNone(result.value) <=> SameMultiset(LeftArr, RightArr)
    /\ isSome(result.value) =>
         /\ result.value.failType = "MISSING_ARRAY_VALUE"
         /\ result.value.rightMissing = MultisetDiff(LeftArr, RightArr)
         /\ result.value.leftMissing = MultisetDiff(RightArr, LeftArr)

\* [1, 1, 2] against [1, 1, "a"] under the default configuration: rightMissing = [2],
\* leftMissing = ["a"]
C1_Witness ==
  /\ Returned /\ config = EmptyConfig /\ defaultConfig = EmptyConfig
  /\ LeftArr = <<Num(1), Num(1), Num(2)>>
  /\ RightArr = <<Num(1), Num(1), Str(1)>>
  /\ result.value.failType = "MISSING_ARRAY_VALUE"
  /\ result.value.rightMissing = <<Num(2)>>
  /\ result.value.leftMissing = <<Str(1)>>

\* C2 (as claimed): with checkRightMissing = false in unordered mode, a left sequence
\* holding every element of the right one plus extra elements compares with no failure.
C2_ExtraLeftPasses ==
  (/\ Returned /\ ~Effective.checkRightMissing /\ ~Effective.inOrder
   /\ MultisetDiff(RightArr, LeftArr) = <<>>
   /\ MultisetDiff(LeftArr, RightArr) # <<>>)
    => isNone(result.value)

\* C3 (as claimed): with checkRightMissing = false in unordered mode, a right sequence
\* with extra elements still fails with MISSING_ARRAY_VALUE, leftMissing the extra
\* right elements and rightMissing empty.
C3_ExtraRightFails ==
  (/\ Returned /\ ~Effective.checkRightMissing /\ ~Effective.inOrder
   /\ MultisetDiff(LeftArr, RightArr) = <<>>
   /\ MultisetDiff(RightArr, LeftArr) # <<>>)
    => /\ result.value.failType = "MISSING_ARRAY_VALUE"
       /\ result.value.leftMissing = MultisetDiff(RightArr, LeftArr)
       /\ result.value.rightMissing = <<>>

(***************************************************************************)
(* C4..C6: nested mappings, under SpecMap                                  *)
(***************************************************************************)
keys(x) == {entries(heap, x)[i].k : i \in 1..Len(entries(heap, x))}

\* the places of the two sides, root first: <<left table, right table, path>>
Places ==
  <<[l |-> Tbl(1), r |-> Tbl(4), path |-> <<>>],
    [l |-> Tbl(2), r |-> Tbl(5), path |-> <<"a">>],
    [l |-> Tbl(3), r |-> Tbl(6), path |-> <<"a", ".", "b">>]>>

\* the two sides hold different primitives under `key` at place p
DiffersAt(p, key) ==
  /\ key \in keys(Places[p].l) \cap keys(Places[p].r)
  /\ typeOf(index(heap, Places[p].l, key)) # "table"
  /\ index(heap, Places[p].l, key) # index(heap, Places[p].r, key)

Differences == {<<p, key>> \in (1..3) \X {"n", "m", "c"} : DiffersAt(p, key)}

\* every key of the right side is a key of the left side, at every level
RightKeysInLeft == \A p \in 1..3 : keys(Places[p].r) \subseteq keys(Places[p].l)

SameKeys == \A p \in 1..3 : keys(Places[p].r) = keys(Places[p].l)

PathTo(p, key) == IF p = 1 THEN <<key>> ELSE Places[p].path \o <<".", key>>

\* C4 (as claimed): with checkRightMissing = false, two mappings where every key of
\* right is in left and a shared key holds different primitives, at the root or
\* several mappings deep, still compare as a failure (DIFFERENT_VALUES or, for two
\* types, DIFFERENT_TYPES) at the path of a differing key, with the two values.
C4_StillFailsOnDifferentValues ==
  (Returned /\ ~Effective.checkRightMissing /\ RightKeysInLeft /\ Differences # {}) =>
    \E d \in Differences :
      /\ result.value.failType \in {"DIFFERENT_VALUES", "DIFFERENT_TYPES"}
      /\ result.value.path = PathTo(d[1], d[2])
      /\ result.value.leftValue = index(heap, Places[d[1]].l, d[2])
      /\ result.value.rightValue = index(heap, Places[d[1]].r, d[2])

C6_PathToLeaf ==
  (Returned /\ Effective.checkRightMissing /\ SameKeys /\ Cardinality(Differences) = 1) =>
    \A d \in Differences :
      /\ result.value.failType = "DIFFERENT_VALUES"
      /\ result.value.path = PathTo(d[1], d[2])
      /\ result.value.leftValue = index(heap, Places[d[1]].l, d[2])
      /\ result.value.rightValue = index(heap, Places[d[1]].r, d[2])

\* C6 (amended): ... compare as DIFFERENT_VALUES when the two leaf values have the
\* same type and as DIFFERENT_TYPES when they do not, with that path and those values.
C6_PathToLeafByType ==
  (Returned /\ Effective.checkRightMissing /\ SameKeys /\ Cardinality(Differences) = 1) =>
    \A d \in Differences :
      LET l == index(heap, Places[d[1]].l, d[2])
          r == index(heap, Places[d[1]].r, d[2])
      IN result.value =
           FailureData(IF typeOf(l) = typeOf(r) THEN "DIFFERENT_VALUES" ELSE "DIFFERENT_TYPES",
                       l, r, <<>>, <<>>, PathTo(d[1], d[2]))

\* { a: { b: { c: 1 } } } against { a: { b: { c: 2 } } }: DIFFERENT_VALUES at a.b.c
C6_Witness ==
  /\ Returned /\ config = EmptyConfig /\ defaultConfig = EmptyConfig
  /\ SameKeys /\ Differences = {<<3, "c">>}
  /\ result.value.failType = "DIFFERENT_VALUES"
  /\ result.value.path = <<"a", ".", "b", ".", "c">>
  /\ result.value.leftValue = Num(1) /\ result.value.rightValue = Num(2)

(***************************************************************************)
(* C7, C8: values of any type under any configuration, under SpecTypes     *)
(***************************************************************************)
Log == result.ctx.log

Invoked(l, r) == \E i \in 1..Len(result.ctx.calls) : result.ctx.calls[i] = <<l, r>>

C8_IdentityFirst ==
  Returned =>
    /\ left = right =>
         /\ isNone(result.value)
         /\ result.ctx.calls = <<>> /\ result.ctx.cache = {} /\ result.ctx.expanded = <<>>
    /\ \A i \in 1..Len(Log) :
         Log[i].l = Log[i].r => isNone(Log[i].res) /\ ~Invoked(Log[i].l, Log[i].r)

\* an Instance against itself while a failing checker is registered for Instance,
\* and a table against itself while table is referenceOnly
C8_Witness ==
  /\ Returned /\ left = right /\ isNone(result.value)
  /\ \/ left = Inst(1) /\ config = [customCheckers |-> ("Instance" :> "checkFail")]
     \/ left = Tbl(3) /\ config = [referenceOnly |-> <<"table">>]

(***************************************************************************)
(* C9, C10: cyclic graphs, under SpecCyc and SpecSelf                      *)
(***************************************************************************)
\* table a holds a reference to table b
RefersTo(a, b) ==
  \/ \E i \in 1..Len(heap[a].arr) : heap[a].arr[i] = Tbl(b)
  \/ \E i \in 1..Len(heap[a].ent) : heap[a].ent[i].v = Tbl(b)

\* C9: on graphs of primitives, sequences and mappings, cyclic ones included, a call
\* of deepEqual returns, in ordered and in unordered mode: the recursion never goes
\* deeper than the number of pairs of composites, because no ordered pair of
\* composites has its elements or entries walked twice in one call.
C9_Terminates ==
  Returned =>
    /\ ~result.ctx.overflow
    /\ \A i, j \in 1..Len(result.ctx.expanded) :
         result.ctx.expanded[i] = result.ctx.expanded[j] => i = j
    /\ Len(result.ctx.expanded) <= Cardinality(DOMAIN heap) * Cardinality(DOMAIN heap)

\* three tables in a ring (1 -> 2 -> 3 -> 1), table 1 compared with table 2 in
\* unordered mode: more than three pairs of tables are walked, each once, and the
\* call returns
C9_Witness ==
  /\ Returned /\ ~Effective.inOrder
  /\ Len(heap) = 3
  /\ RefersTo(1, 2) /\ RefersTo(2, 3) /\ RefersTo(3, 1)
  /\ Len(result.ctx.expanded) > 3
  /\ ~result.ctx.overflow

\* the scalar keys under which the two self-referential mappings differ
ScalarDifferences == {k \in {"name", "age"} : index(heap, left, k) # index(heap, right, k)}

\* C10 (as claimed): two mappings that each hold themselves under the same key and
\* differ in exactly one scalar field compare as DIFFERENT_VALUES at that field's
\* path with the two scalar values, in every iteration order of the keys.
C10_SelfReferenceDifference ==
  (Returned /\ Effective.checkRightMissing /\ Cardinality(ScalarDifferences) = 1) =>
    \A k \in ScalarDifferences :
      /\ result.value.failType = "DIFFERENT_VALUES"
      /\ result.value.path = <<k>>
      /\ result.value.leftValue = index(heap, left, k)
      /\ result.value.rightValue = index(heap, right, k)

\* C10 (amended): ... compare as DIFFERENT_VALUES when the two scalars have the same
\* type and as DIFFERENT_TYPES when they do not, at that field's path with the two
\* scalar values, in every iteration order of the keys.
C10_SelfReferenceDifferenceByType ==
  (Returned /\ Effective.checkRightMissing /\ Cardinality(ScalarDifferences) = 1) =>
    \A k \in ScalarDifferences :
      LET l == index(heap, left, k)
          r == index(heap, right, k)
      IN result.value =
           FailureData(IF typeOf(l) = typeOf(r) THEN "DIFFERENT_VALUES" ELSE "DIFFERENT_TYPES",
                       l, r, <<>>, <<>>, <<k>>)

\* self comes first on both sides and only age differs: the pair met again under
\* self is passed over and the difference of age is reported
C10_Witness ==
  /\ Returned /\ config = EmptyConfig /\ defaultConfig = EmptyConfig
  /\ heap[1].ent[1].k = "self" /\ heap[2].ent[1].k = "self"
  /\ ScalarDifferences = {"age"}
  /\ result.value.failType = "DIFFERENT_VALUES"
  /\ result.value.path = <<"age">>
  /\ result.value.leftValue = Num(1) /\ result.value.rightValue = Num(2)

(***************************************************************************)
(* C11, C12: an ignored type, under SpecIgnore                             *)
(***************************************************************************)
\* two values are identical, or one of them has type T, or they are mappings with
\* the same keys whose fields are so related in turn (fuel bounds the nesting)
RECURSIVE EqualUpToIgnored(_, _, _, _)
EqualUpToIgnored(l, r, T, fuel) ==
  \/ l = r
  \/ typeOf(l) = T
  \/ typeOf(r) = T
  \/ /\ fuel > 0
     /\ typeOf(l) = "table" /\ typeOf(r) = "table"
     /\ ~isArray(heap, l) /\ ~isArray(heap, r)
     /\ keys(l) = keys(r)
     /\ \A k \in keys(l) :
          EqualUpToIgnored(index(heap, l, k), index(heap, r, k), T, fuel - 1)

\* C11: with ignore = [T], two mappings with the same keys whose corresponding
\* values are identical, or have a side of type T, or are nested mappings so related
\* in turn, compare with no failure, whatever the type of the other side.
C11_IgnoredAnywhere ==
  (/\ Returned
   /\ ~isArray(heap, left) /\ ~isArray(heap, right)
   /\ keys(left) = keys(right)
   /\ \E T \in IgnoredTypes :
        /\ includes(Effective.ignore, T)
        /\ \A k \in keys(left) :
             EqualUpToIgnored(index(heap, left, k), index(heap, right, k), T, Len(heap)))
    => isNone(result.value)

\* ignore = ["number"], { a: 1, b: { c: "s" } } against { a: "s", b: { c: 1 } }:
\* the number is on the left at the root and on the right one mapping down
C11_Witness ==
  /\ Returned /\ config = [ignore |-> <<"number">>]
  /\ index(heap, left, "a") = Num(1) /\ index(heap, right, "a") = Str(1)
  /\ index(heap, left, "b") = Tbl(3) /\ index(heap, right, "b") = Tbl(4)
  /\ index(heap, Tbl(3), "c") = Str(1) /\ index(heap, Tbl(4), "c") = Num(1)
  /\ isNone(result.value)

\* the elements of a sequence whose type is not T
Without(s, T) == SelectSeq(s, LAMBDA x : typeOf(x) # T)

\* C12 (as claimed): in unordered mode with ignore = [T], two sequences whose
\* elements of a type other than T are equal as multisets compare with no failure,
\* however many elements of type T each side holds and wherever they sit.
C12_IgnoredElementsDoNotCount ==
  (/\ Returned /\ ~Effective.inOrder
   /\ isArray(heap, left) /\ isArray(heap, right)
   /\ \E T \in {"number", "string"} :
        /\ Effective.ignore = <<T>>
        /\ SameMultiset(Without(LeftArr, T), Without(RightArr, T)))
    => isNone(result.value)

(***************************************************************************)
(* C13..C15: custom checkers and referenceOnly, under SpecTypes            *)
(***************************************************************************)
\* a is b followed by at least one more piece
Extends(a, b) == Len(a) > Len(b) /\ SubSeq(a, 1, Len(b)) = b

\* comparison i of the log is of two different values of one type that is not ignored
SameTypePair(i) ==
  /\ Log[i].l # Log[i].r
  /\ typeOf(Log[i].l) = typeOf(Log[i].r)
  /\ ~includes(Effective.ignore, typeOf(Log[i].l))

C14_ReferenceOnlyIsIdentity ==
  Returned =>
    \A i \in 1..Len(Log) :
      (SameTypePair(i) /\ includes(Effective.referenceOnly, typeOf(Log[i].l)))
        => Log[i].res =
             FailureData("DIFFERENT_REFERENCE", Log[i].l, Log[i].r, <<>>, <<>>, Log[i].path)

\* comparison i of the log is of two different values of a type that is listed in
\* referenceOnly and has a checker
ReferenceOnlyWithChecker(i) ==
  /\ SameTypePair(i)
  /\ includes(Effective.referenceOnly, typeOf(Log[i].l))
  /\ typeOf(Log[i].l) \in DOMAIN Effective.customCheckers

EqualElements(x, y) ==
  \/ x = y
  \/ typeOf(x) = "table" /\ typeOf(y) = "table" /\ heap[x.v] = heap[y.v]

\* the left sequence is longer than the right one and equal to it at every common index
LeftLongerOtherwiseEqual ==
  /\ Len(LeftArr) > Len(RightArr)
  /\ \A i \in 1..Len(RightArr) : EqualElements(LeftArr[i], RightArr[i])

C17_OrderedFailuresAtAnIndex ==
  (Returned /\ Effective.inOrder /\ isSome(result.value)) =>
    /\ result.value.failType # "MISSING_ARRAY_VALUE"
    /\ result.value.leftMissing = <<>> /\ result.value.rightMissing = <<>>
    /\ \E i \in 0..MaxLen :
         /\ result.value.path # <<>>
         /\ result.value.path[1] = "[" \o ToString(i) \o "]"
         /\ Len(result.value.path) = 1 =>
              /\ result.value.leftValue = At(heap, left, i)
              /\ result.value.rightValue = At(heap, right, i)

\* the comparisons of the log made for index i of the pair compared at path p
ElementComparisons(p, i) ==
  {j \in 1..Len(Log) : Log[j].path = p \o <<"[" \o ToString(i) \o "]">>}

FailsAt(p, i) == \E j \in ElementComparisons(p, i) : isSome(Log[j].res)

RightOnlyPlaces(l, r) ==
  {i \in 1..Len(entries(heap, r)) : entries(heap, r)[i].k \notin keys(l)}

FirstRightOnly(l, r) ==
  entries(heap, r)[CHOOSE i \in RightOnlyPlaces(l, r) : \A j \in RightOnlyPlaces(l, r) : i <= j]

WayToParams ==
  IF left = OverlapParams(3) THEN <<>>
  ELSE IF isArray(heap, left) THEN <<"[1]">>
  ELSE <<"params">>

\* C20 (as claimed): the path of every failure starts with the keys and indices
\* that lead from the roots to the values whose comparison failed, also when the
\* failure comes from a checker invoked on values held by a mapping or by a
\* sequence compared in order.
C20_PathFromTheRoot ==
  (/\ Returned /\ isSome(result.value)
   /\ Invoked(OverlapParams(3), OverlapParams(4))
   /\ isArray(heap, left) => Effective.inOrder)
    => /\ Len(result.value.path) >= Len(WayToParams)
       /\ SubSeq(result.value.path, 1, Len(WayToParams)) = WayToParams

(***************************************************************************)
(* C21..C25: the configuration a call runs under, under SpecConfig         *)
(***************************************************************************)
\* the comparisons whose verdict shows one field of the configuration
OrderProbe == heap = <<Arr(<<Num(1), Num(2)>>), Arr(<<Num(2), Num(1)>>)>>

KeyProbe == heap = <<Map(<<KV("a", Num(1)), KV("b", Num(2))>>), Map(<<KV("a", Num(1))>>)>>

VectorProbe == heap = <<Arr(<<Vector3(1)>>), Arr(<<Vector3(2)>>)>>

InstanceProbe == heap = <<Arr(<<Inst(1)>>), Arr(<<Inst(2)>>)>>

\* the contents of a configuration object
Contents(c) == [k \in DOMAIN c \ {"obj"} |-> c[k]]

\* c names the checker k for the type t
Names(c, t, k) ==
  /\ "customCheckers" \in DOMAIN c
  /\ t \in DOMAIN c.customCheckers
  /\ c.customCheckers[t] = k

\* C21: once setDefaultDeepEqualConfig was the last call to assign the default,
\* getDefaultDeepEqualConfig yields exactly what its argument held when it was
\* passed, whatever earlier calls had set and whatever the caller stored in the
\* object afterwards, and a call of deepEqual without a configuration of its own
\* runs under those fields and the baseline for the rest.
C21_DefaultIsReplacedNotMerged ==
  lastOp.op = "set" =>
    /\ getDefaultDeepEqualConfig = lastOp.arg
    /\ (Returned /\ config = EmptyConfig /\ OrderProbe)
          => (isSome(result.value) <=> orElse(lastOp.arg, "inOrder", FALSE))
    /\ (Returned /\ config = EmptyConfig /\ KeyProbe)
          => (isSome(result.value) <=> orElse(lastOp.arg, "checkRightMissing", TRUE))
    /\ (Returned /\ config = EmptyConfig /\ VectorProbe)
          => (isNone(result.value) <=>
                \/ includes(orElse(lastOp.arg, "ignore", <<>>), "Vector3")
                \/ Names(lastOp.arg, "Vector3", "checkNone"))

\* the second default the caller set, after a first one that switched
\* checkRightMissing off and from an object it has changed again since, governs
\* a call alone: the key only the left mapping has is reported
C21_Witness ==
  /\ Returned /\ config = EmptyConfig /\ KeyProbe
  /\ lastOp = [op |-> "set", arg |-> [inOrder |-> TRUE]]
  /\ Contents(argument) # lastOp.arg
  /\ isSome(result.value)

\* the verdict on the two values when no default was ever set and the call has no
\* configuration of its own: sequences as multisets, every key of either mapping
\* required, values of built-in types compared by value or by reference
BaselineVerdict ==
  IF SameMultiset(heap[1].arr, heap[2].arr) /\ heap[1].ent = heap[2].ent THEN "NONE"
  ELSE IF KeyProbe THEN "MISSING"
  ELSE "MISSING_ARRAY_VALUE"

\* C22: once resetDefaultDeepEqualConfig was the last call to assign the default,
\* whatever was set before it, the stored default is empty and a call of deepEqual
\* without a configuration of its own returns what it returns when no default was
\* ever set.
C22_ResetRestoresBaseline ==
  /\ lastOp.op = "reset" => getDefaultDeepEqualConfig = EmptyConfig
  /\ (Returned /\ config = EmptyConfig /\ lastOp.op \in {"none", "reset"})
       => result.value.failType = BaselineVerdict

\* a call after a reset that followed a set naming a checker for Instance that
\* accepts everything: the two instances are different again
C22_Witness ==
  /\ Returned /\ config = EmptyConfig /\ InstanceProbe
  /\ lastOp.op = "reset"
  /\ Names(argument, "Instance", "checkNone")
  /\ result.value.failType = "MISSING_ARRAY_VALUE"

\* the value of a field by precedence: the call's configuration, else the stored
\* default, else the baseline
Precedence(field, baseline) ==
  IF field \in DOMAIN config THEN config[field]
  ELSE IF field \in DOMAIN defaultConfig THEN defaultConfig[field]
  ELSE baseline

\* the type is ignored by the stored default or by the call's configuration
IgnoredSomewhere(t) ==
  includes(orElse(defaultConfig, "ignore", <<>>), t) \/ includes(orElse(config, "ignore", <<>>), t)

\* C23: a returned call ran with checkRightMissing and inOrder each taken from its
\* own configuration if given there, else from the stored default if set there,
\* else from the baseline (true and false), and its verdict shows it: two
\* sequences that differ in order alone fail exactly in ordered mode, and a key
\* only the left mapping has fails exactly when checkRightMissing is on.
C23_ScalarPrecedence ==
  Returned =>
    /\ Effective.checkRightMissing = Precedence("checkRightMissing", TRUE)
    /\ Effective.inOrder = Precedence("inOrder", FALSE)
    /\ (OrderProbe /\ ~IgnoredSomewhere("number"))
         => (isSome(result.value) <=> Precedence("inOrder", FALSE))
    /\ (KeyProbe /\ ~IgnoredSomewhere("number"))
         => (isSome(result.value) <=> Precedence("checkRightMissing", TRUE))

\* the call switches off the ordered mode the default switched on
C23_Witness ==
  /\ Returned /\ OrderProbe
  /\ defaultConfig = [inOrder |-> TRUE]
  /\ config = [inOrder |-> FALSE]
  /\ isNone(result.value)

\* the list a configuration gives for a field, empty when it gives none
ListOf(c, field) == orElse(c, field, <<>>)

\* the checkers a configuration names, none when it names none
CheckersOf(c) == orElse(c, "customCheckers", EmptyConfig)

\* C24: a returned call ran with the ignore list and the referenceOnly list that
\* are the default's list followed by the call's own list, and with a registry of
\* checkers holding every type the built-in registry, the default or the call
\* names, each with the checker of the call if it names one, else of the default,
\* else the built-in one.  So a type the default ignores stays ignored whatever
\* list the call gives, and a checker the default names for one type stays when
\* the call names checkers for other types.
C24_ListsConcatenateCheckersMerge ==
  Returned =>
    /\ Effective.ignore = ListOf(defaultConfig, "ignore") \o ListOf(config, "ignore")
    /\ Effective.referenceOnly
         = ListOf(defaultConfig, "referenceOnly") \o ListOf(config, "referenceOnly")
    /\ DOMAIN Effective.customCheckers
         = DOMAIN checkers \cup DOMAIN CheckersOf(defaultConfig) \cup DOMAIN CheckersOf(config)
    /\ \A t \in DOMAIN Effective.customCheckers :
         Effective.customCheckers[t]
           = IF t \in DOMAIN CheckersOf(config) THEN CheckersOf(config)[t]
             ELSE IF t \in DOMAIN CheckersOf(defaultConfig) THEN CheckersOf(defaultConfig)[t]
             ELSE checkers[t]
    /\ (VectorProbe /\ includes(ListOf(defaultConfig, "ignore"), "Vector3"))
         => isNone(result.value)
    /\ (InstanceProbe /\ Names(defaultConfig, "Instance", "checkNone")
          /\ "Instance" \notin DOMAIN CheckersOf(config))
         => isNone(result.value)

\* the default ignores Vector3 and the call gives an empty ignore list: the two
\* different vectors are still not compared
C24_Witness ==
  /\ Returned /\ VectorProbe
  /\ includes(ListOf(defaultConfig, "ignore"), "Vector3")
  /\ config = [ignore |-> <<>>]
  /\ isNone(result.value)

\* the call recorded the pair itself: it compared the two values
RecordedByTheCall(p) == \E i \in 1..Len(Log) : <<Log[i].l, Log[i].r>> = p

\* C25: no call writes into the map of the baseline, and a returned call started
\* from an empty map of visited pairs whatever map its configuration or the
\* stored default carries and whatever calls came before: it walked the two roots,
\* every pair in its map at the end is one it compared itself, and with a
\* configuration that carries nothing but a map holding the pair of the roots,
\* and no default, its verdict is the verdict of the call alone.
C25_FreshCachePerCall ==
  /\ baselineCache = {}
  /\ Returned =>
       /\ result.ctx.expanded # <<>> /\ result.ctx.expanded[1] = <<left, right>>
       /\ \A p \in result.ctx.cache : RecordedByTheCall(p)
       /\ (config = [cache |-> CallerMap] /\ defaultConfig = EmptyConfig)
            => result.value.failType = BaselineVerdict

\* the call's configuration carries a map that holds the pair of the roots, and
\* the two sequences are still compared and found different
C25_Witness ==
  /\ Returned /\ VectorProbe
  /\ config = [cache |-> CallerMap] /\ defaultConfig = EmptyConfig
  /\ <<left, right>> \in CallerMap.pairs
  /\ result.value.failType = "MISSING_ARRAY_VALUE"
  /\ result.ctx.cache = {<<left, right>>}

(***************************************************************************)
(* C26: checkArrayProperty, under SpecParams                               *)
(***************************************************************************)
\* the two OverlapParams objects agree on every property compared by value
SameValueProperties ==
  \A key \in {"FilterType", "MaxParts", "CollisionGroup", "RespectCanCollide",
               "BruteForceAllSlow"} :
    index(heap, OverlapParams(3), key) = index(heap, OverlapParams(4), key)

\* C26 (as claimed): with checkRightMissing on, checkArrayProperty returns no
\* failure exactly when the two arrays hold the same elements the same number of
\* times, and MISSING_ARRAY_VALUE otherwise, also when they differ only in how
\* often an element occurs or in length.
C26_ArrayPropertyEquality ==
  (/\ Returned /\ left = OverlapParams(3) /\ right = OverlapParams(4)
   /\ Effective.checkRightMissing
   /\ SameValueProperties)
    => /\ isNone(result.value) <=> SameMultiset(heap[5].arr, heap[6].arr)
       /\ isSome(result.value) => result.value.failType = "MISSING_ARRAY_VALUE"

(***************************************************************************)
(* C27: a sub-object held more than once, under SpecShared                 *)
(***************************************************************************)
\* C27 (as claimed): for values without cycles, a pair of values that the call
\* compared and found different is not treated as equal when the call meets it
\* again, so two sequences that differ as multisets of their elements' contents
\* are reported as different.
C27_DifferentPairStaysDifferent ==
  (Returned /\ config = EmptyConfig /\ defaultConfig = EmptyConfig) =>
    /\ \A i, j \in 1..Len(Log) :
         (i < j /\ Log[i].l = Log[j].l /\ Log[i].r = Log[j].r /\ isSome(Log[i].res))
           => isSome(Log[j].res)
    /\ isNone(result.value)
         => SameMultiset([i \in 1..Len(LeftArr) |-> heap[LeftArr[i].v]],
                         [i \in 1..Len(RightArr) |-> heap[RightArr[i].v]])

(***************************************************************************)
(* C28: structural equality, under SpecDeep                                *)
(***************************************************************************)
\* x and y are structurally equal: the same primitive, or two sequences holding
\* structurally equal elements the same number of times in any order, or two
\* mappings with the same keys and structurally equal values under each key
RECURSIVE StructurallyEqual(_, _)
StructurallyEqual(x, y) ==
  IF typeOf(x) # "table" \/ typeOf(y) # "table" THEN x = y
  ELSE LET a == heap[x.v]
           b == heap[y.v]
       IN IF a.ent = <<>> /\ b.ent = <<>>
          THEN /\ Len(a.arr) = Len(b.arr)
               /\ \A i \in 1..Len(a.arr) :
                    Cardinality({j \in 1..Len(a.arr) : StructurallyEqual(a.arr[i], a.arr[j])})
                      = Cardinality({j \in 1..Len(b.arr) : StructurallyEqual(a.arr[i], b.arr[j])})
          ELSE /\ a.arr = <<>> /\ b.arr = <<>>
               /\ {a.ent[i].k : i \in 1..Len(a.ent)} = {b.ent[i].k : i \in 1..Len(b.ent)}
               /\ \A i \in 1..Len(a.ent), j \in 1..Len(b.ent) :
                    a.ent[i].k = b.ent[j].k => StructurallyEqual(a.ent[i].v, b.ent[j].v)

C29_SymmetricVerdict ==
  (Returned /\ defaultConfig = EmptyConfig)
    => (isSome(result.value) <=> isSome(deepEqual(right, left, config).value))

(***************************************************************************)
(* C30: the missing lists of a failure, under SpecIgnore                   *)
(***************************************************************************)
\* C30 (as claimed): a MISSING_ARRAY_VALUE failure has at least one of
\* leftMissing and rightMissing non-empty, and a failure of any other kind has
\* both empty, in either mode and under any ignore list and checkRightMissing.
C30_MissingListsMatchTheKind ==
  (Returned /\ isSome(result.value))
    => IF result.value.failType = "MISSING_ARRAY_VALUE"
       THEN result.value.leftMissing # <<>> \/ result.value.rightMissing # <<>>
       ELSE result.value.leftMissing = <<>> /\ result.value.rightMissing = <<>>
====
